---- MODULE Spec2Model ----
(***************************************************************************)
(* Model of the socket.io document/awareness sync adapter                  *)
(* (createAffineDataSource and setupAffineAwareness).                      *)
(*                                                                         *)
(* One step of the model is one synchronous run-to-completion piece of the *)
(* single-threaded program: an API call up to its first await, an inbound  *)
(* channel message dispatched to every registered handler, or the          *)
(* continuation of one awaited base64 encoding / one acknowledgement.      *)
(***************************************************************************)
EXTENDS Integers, Sequences, FiniteSets, TLC

\* Number of API calls and inbound events explored in one behaviour.
MaxOps == 3
\* Number of relays by the server explored in one behaviour.
MaxRelays == 3

Adapters == {"x", "y"}
Sockets == {"s1", "s2"}
Rooms == {"w1", "w2"}
ClientIds == {1, 2, 3}

\* Inputs of sendDocUpdate / contents of server-update: (guid, update bytes).
DocInputs == {<<"g1", <<77>>>>, <<"g2", <<255, 0, 16, 9>>>>}
\* Inputs of queryDocState: (guid, state vector or NoVector).
NoVector == <<-1>>
QueryInputs == {<<"g1", NoVector>>, <<"g2", <<3, 1>>>>}
\* Change-sets {added, updated, removed} of an awareness 'update' event.
ChangeSets ==
  { [added |-> <<>>, updated |-> <<1>>, removed |-> <<>>],
    [added |-> <<3>>, updated |-> <<>>, removed |-> <<2>>],
    [added |-> <<>>, updated |-> <<>>, removed |-> <<>>] }
Origins == {"local", "server"}
\* Awareness diffs a peer may broadcast: <<count, clientId, clock, ...>>.
AwInputs == {<<1, 2, 1>>, <<2, 3, 1, 2, 2>>}

VARIABLES
  ds,          \* created data sources: adapter -> [guid, socket, clientID]
  connected,   \* socket -> BOOLEAN (socket.connect() / socket.disconnect())
  handlers,    \* socket -> event -> sequence of registered handlers [a, k]
  awHandlers,  \* adapter -> sequence of activations listening to awareness 'update'
  awareness,   \* adapter -> clientId -> clock (0: client unknown)
  applied,     \* adapter -> diffs applied to the awareness replica (by handler k)
  doc,         \* adapter -> set of <<guid, update>> merged into the replica
  acts,        \* adapter -> sequence of activations of onDocUpdate
  tasks,       \* sequence of asynchronous calls / promise chains, in call order
  trace,       \* socket -> side effects performed on it and messages received
  ops          \* number of API calls and inbound events so far

vars == <<ds, connected, handlers, awHandlers, awareness, applied, doc, acts, tasks, trace, ops>>

Events == {"server-update", "server-awareness-broadcast", "new-client-awareness-init"}

(***************************************************************************)
(* base64 (sync-socket-io/utils): bytes are 0..255, a base64 string is a   *)
(* sequence of sextets 0..63 with Pad for '='.                             *)
(***************************************************************************)
Pad == 64

RECURSIVE uint8ArrayToBase64(_)
uint8ArrayToBase64(bs) ==
  IF bs = <<>> THEN <<>>
  ELSE LET n == Len(bs)
           b1 == bs[1]
           b2 == IF n >= 2 THEN bs[2] ELSE 0
           b3 == IF n >= 3 THEN bs[3] ELSE 0
           c1 == b1 \div 4
           c2 == (b1 % 4) * 16 + (b2 \div 16)
           c3 == (b2 % 16) * 4 + (b3 \div 64)
           c4 == b3 % 64
       IN  IF n = 1 THEN <<c1, c2, Pad, Pad>>
           ELSE IF n = 2 THEN <<c1, c2, c3, Pad>>
           ELSE <<c1, c2, c3, c4>> \o uint8ArrayToBase64(SubSeq(bs, 4, n))

RECURSIVE base64ToUint8Array(_)
base64ToUint8Array(s) ==
  IF Len(s) < 4 THEN <<>>
  ELSE LET c1 == s[1]
           c2 == s[2]
           c3 == IF s[3] = Pad THEN 0 ELSE s[3]
           c4 == IF s[4] = Pad THEN 0 ELSE s[4]
           b1 == c1 * 4 + (c2 \div 16)
           b2 == (c2 % 16) * 16 + (c3 \div 4)
           b3 == (c3 % 4) * 64 + c4
       IN  IF s[3] = Pad THEN <<b1>>
           ELSE IF s[4] = Pad THEN <<b1, b2>>
           ELSE <<b1, b2, b3>> \o base64ToUint8Array(SubSeq(s, 5, Len(s)))

(***************************************************************************)
(* The mutable state as one record, so that the synchronous calls made by  *)
(* one handler compose: every helper maps a state record to the next one.  *)
(***************************************************************************)
Cur ==
  [connected |-> connected, handlers |-> handlers, awHandlers |-> awHandlers,
   awareness |-> awareness, applied |-> applied, doc |-> doc, acts |-> acts,
   tasks |-> tasks, trace |-> trace]

Commit(st) ==
  /\ connected' = st.connected
  /\ handlers' = st.handlers
  /\ awHandlers' = st.awHandlers
  /\ awareness' = st.awareness
  /\ applied' = st.applied
  /\ doc' = st.doc
  /\ acts' = st.acts
  /\ tasks' = st.tasks
  /\ trace' = st.trace
  /\ ds' = ds

\* Who performed a side effect: activation k of adapter a, or task t (0: none).
By(a, k, t) == [a |-> a, k |-> k, t |-> t]

Log(st, s, op, ev, arg, by) ==
  [st EXCEPT !.trace[s] = Append(@, [op |-> op, ev |-> ev, arg |-> arg, by |-> by])]

\* The sequence q without the first occurrence of x (Emitter.off).
RECURSIVE RemoveFirst(_, _)
RemoveFirst(q, x) ==
  IF q = <<>> THEN <<>>
  ELSE IF Head(q) = x THEN Tail(q)
  ELSE <<Head(q)>> \o RemoveFirst(Tail(q), x)

SocketConnect(st, s, by) ==
  Log([st EXCEPT !.connected[s] = TRUE], s, "connect", "", <<>>, by)

SocketDisconnect(st, s, by) ==
  Log([st EXCEPT !.connected[s] = FALSE], s, "disconnect", "", <<>>, by)

SocketEmit(st, s, ev, arg, by) == Log(st, s, "emit", ev, arg, by)

\* An inbound message (or acknowledgement) arrives on socket s; src names the
\* task whose emission it relays or answers (0: none).
Receive(st, s, ev, arg, src) == Log(st, s, "recv", ev, arg, By("", 0, src))

SocketOn(st, s, ev, by) ==
  Log([st EXCEPT !.handlers[s][ev] = Append(@, [a |-> by.a, k |-> by.k])],
      s, "on", ev, <<>>, by)

\* Variant: socket.off(ev) without the listener removes every listener of ev.
SocketOff_AllListeners(st, s, ev, by) ==
  Log([st EXCEPT !.handlers[s][ev] = <<>>], s, "off", ev, <<>>, by)

SocketOff(st, s, ev, by) ==
  Log([st EXCEPT !.handlers[s][ev] = RemoveFirst(@, [a |-> by.a, k |-> by.k])],
      s, "off", ev, <<>>, by)

AwarenessOn(st, s, by) ==
  Log([st EXCEPT !.awHandlers[by.a] = Append(@, by.k)], s, "on", "update", <<>>, by)

AwarenessOff(st, s, by) ==
  Log([st EXCEPT !.awHandlers[by.a] = RemoveFirst(@, by.k)], s, "off", "update", <<>>, by)

(***************************************************************************)
(* Asynchronous calls and promise chains.                                  *)
(***************************************************************************)
NoResult == [kind |-> "none", bytes |-> <<>>]
NoAck == [kind |-> "none", str |-> <<>>]

Task(kind, a, k, guid, bytes, status) ==
  [kind |-> kind, a |-> a, k |-> k, guid |-> guid, bytes |-> bytes,
   status |-> status, result |-> NoResult, ack |-> NoAck]

AddTask(st, t) == [st EXCEPT !.tasks = Append(@, t)]

(***************************************************************************)
(* The awareness engine (y-protocols/awareness), as far as the bridge uses *)
(* it.  An encoded diff is <<count, clientId_1, clock_1, ...>>.            *)
(***************************************************************************)
RECURSIVE AwarenessEntries(_, _)
AwarenessEntries(aw, clients) ==
  IF clients = <<>> THEN <<>>
  ELSE <<Head(clients), aw[Head(clients)]>> \o AwarenessEntries(aw, Tail(clients))

encodeAwarenessUpdate(aw, clients) == <<Len(clients)>> \o AwarenessEntries(aw, clients)

\* The client ids an encoded diff covers, in order.
DecodedClients(bytes) ==
  IF bytes = <<>> THEN <<>> ELSE [i \in 1..bytes[1] |-> bytes[2 * i]]

DecodedClock(bytes, i) == bytes[2 * i + 1]

(***************************************************************************)
(* setupAffineAwareness: the local-change listener.                        *)
(***************************************************************************)
Heard(st, a, k, origin) == [st EXCEPT !.acts[a][k].heard = Append(@, origin)]

\* Variant: the listener leaves the removed clients out of the diff.
ChangedClients_NoRemoved(changes) == changes.added \o changes.updated

\* Object.values(changes).reduce((res, cur) => [...res, ...cur])
ChangedClients(changes) == changes.added \o changes.updated \o changes.removed

\* Variant: the listener forgets the origin check.
awarenessUpdate_NoOriginCheck(st, a, k, changes, origin) ==
  AddTask(st, Task("aw", a, k, ds[a].guid,
                   encodeAwarenessUpdate(st.awareness[a], ChangedClients(changes)),
                   "encoding"))

awarenessUpdate(st, a, k, changes, origin) ==
  IF origin = "server" THEN st
  ELSE AddTask(st, Task("aw", a, k, ds[a].guid,
                        encodeAwarenessUpdate(st.awareness[a], ChangedClients(changes)),
                        "encoding"))

\* awareness.emit('update', [changes, origin]): every listener, in order.
RECURSIVE AwarenessEmitUpdate(_, _, _, _, _)
AwarenessEmitUpdate(st, a, ks, changes, origin) ==
  IF ks = <<>> THEN st
  ELSE AwarenessEmitUpdate(
         awarenessUpdate(Heard(st, a, Head(ks), origin), a, Head(ks), changes, origin),
         a, Tail(ks), changes, origin)

\* applyAwarenessUpdate(awareness, update, origin): an entry is applied when
\* its clock is newer; an 'update' event is emitted when something was.
RECURSIVE ApplyEntries(_, _, _, _)
ApplyEntries(aw, ch, bytes, i) ==
  IF bytes = <<>> \/ i > bytes[1] THEN [aw |-> aw, ch |-> ch]
  ELSE LET c == bytes[2 * i]
           clock == DecodedClock(bytes, i)
       IN  IF clock > aw[c]
           THEN ApplyEntries([aw EXCEPT ![c] = clock],
                             IF aw[c] = 0
                             THEN [ch EXCEPT !.added = Append(@, c)]
                             ELSE [ch EXCEPT !.updated = Append(@, c)],
                             bytes, i + 1)
           ELSE ApplyEntries(aw, ch, bytes, i + 1)

NoChanges == [added |-> <<>>, updated |-> <<>>, removed |-> <<>>]

applyAwarenessUpdate(st, a, k, bytes, origin) ==
  LET r == ApplyEntries(st.awareness[a], NoChanges, bytes, 1)
      st1 == [st EXCEPT !.awareness[a] = r.aw,
                        !.applied[a] = Append(@, [k |-> k, bytes |-> bytes,
                                                  origin |-> origin])]
  IN  IF r.ch = NoChanges THEN st1
      ELSE AwarenessEmitUpdate(st1, a, st1.awHandlers[a], r.ch, origin)

(***************************************************************************)
(* setupAffineAwareness: the two channel handlers.                         *)
(***************************************************************************)
\* Variant: the broadcast handler forgets the room check.
awarenessBroadcast_NoRoomCheck(st, a, k, msg) ==
  applyAwarenessUpdate(st, a, k, base64ToUint8Array(msg.awarenessUpdate), "server")

awarenessBroadcast(st, a, k, msg) ==
  IF msg.workspaceId # ds[a].guid THEN st
  ELSE applyAwarenessUpdate(st, a, k, base64ToUint8Array(msg.awarenessUpdate), "server")

\* Variant: the handler re-announces the whole awareness map.
newClientAwarenessInitHandler_AllClients(st, a, k) ==
  AddTask(st, Task("init", a, k, ds[a].guid,
                   encodeAwarenessUpdate(st.awareness[a], <<1, 2, 3>>),
                   "encoding"))

newClientAwarenessInitHandler(st, a, k) ==
  AddTask(st, Task("init", a, k, ds[a].guid,
                   encodeAwarenessUpdate(st.awareness[a], <<ds[a].clientID>>),
                   "encoding"))

setupAffineAwareness(st, a, k) ==
  LET s == ds[a].socket
      me == By(a, k, 0)
      st1 == SocketOn(st, s, "server-awareness-broadcast", me)
      st2 == SocketOn(st1, s, "new-client-awareness-init", me)
      st3 == AwarenessOn(st2, s, me)
  IN  SocketEmit(st3, s, "awareness-init", ds[a].guid, me)

\* Variant: the bridge removes its listeners in the reverse order of their
\* registration.
destroyAwareness_Reverse(st, a, k) ==
  LET s == ds[a].socket
      me == By(a, k, 0)
      st1 == AwarenessOff(st, s, me)
      st2 == SocketOff(st1, s, "new-client-awareness-init", me)
  IN  SocketOff(st2, s, "server-awareness-broadcast", me)

\* Variant: the bridge teardown leaves the new-peer handler registered.
destroyAwareness_KeepsNewClient(st, a, k) ==
  LET s == ds[a].socket
      me == By(a, k, 0)
      st1 == AwarenessOff(st, s, me)
  IN  SocketOff(st1, s, "server-awareness-broadcast", me)

destroyAwareness(st, a, k) ==
  LET s == ds[a].socket
      me == By(a, k, 0)
      st1 == AwarenessOff(st, s, me)
      st2 == SocketOff(st1, s, "server-awareness-broadcast", me)
  IN  SocketOff(st2, s, "new-client-awareness-init", me)

(***************************************************************************)
(* createAffineDataSource: onDocUpdate and its inbound listener.           *)
(***************************************************************************)
\* callback(guid, update): the provider merges the update into the replica
\* (a grow-only set models the commutative, idempotent CRDT merge).
Callback(st, a, k, guid, update, src) ==
  [st EXCEPT !.acts[a][k].cb = Append(@, [guid |-> guid, update |-> update, src |-> src]),
             !.doc[a] = @ \cup {<<guid, update>>}]

\* Variant: the listener passes the room id as the guid.
onUpdate_WrongGuid(st, a, k, msg, src) ==
  IF msg.workspaceId = ds[a].guid
  THEN Callback(st, a, k, msg.workspaceId, base64ToUint8Array(msg.update), src)
  ELSE st

\* Variant: the listener forgets the room check.
onUpdate_NoRoomCheck(st, a, k, msg, src) ==
  Callback(st, a, k, msg.guid, base64ToUint8Array(msg.update), src)

onUpdate(st, a, k, msg, src) ==
  IF msg.workspaceId = ds[a].guid
  THEN Callback(st, a, k, msg.guid, base64ToUint8Array(msg.update), src)
  ELSE st

NewActivation == [teardowns |-> 0, cb |-> <<>>, heard |-> <<>>]

\* Variant: the handshake is emitted after the awareness bridge is set up.
onDocUpdate_LateHandshake(st, a, k) ==
  LET s == ds[a].socket
      me == By(a, k, 0)
      st0 == [st EXCEPT !.acts[a] = Append(@, NewActivation)]
      st1 == SocketConnect(st0, s, me)
      st3 == SocketOn(st1, s, "server-update", me)
      st4 == setupAffineAwareness(st3, a, k)
  IN  SocketEmit(st4, s, "client-handshake", ds[a].guid, me)

onDocUpdate(st, a, k) ==
  LET s == ds[a].socket
      me == By(a, k, 0)
      st0 == [st EXCEPT !.acts[a] = Append(@, NewActivation)]
      st1 == SocketConnect(st0, s, me)
      st2 == SocketEmit(st1, s, "client-handshake", ds[a].guid, me)
      st3 == SocketOn(st2, s, "server-update", me)
  IN  setupAffineAwareness(st3, a, k)

\* Variant: the teardown forgets to remove the 'server-update' listener.
teardown_KeepsListener(st, a, k) ==
  LET s == ds[a].socket
      me == By(a, k, 0)
      st0 == [st EXCEPT !.acts[a][k].teardowns = @ + 1]
      st1 == SocketEmit(st0, s, "client-leave", ds[a].guid, me)
      st3 == destroyAwareness(st1, a, k)
  IN  SocketDisconnect(st3, s, me)

\* Variant: the teardown closes the channel before it announces the leave.
teardown_ClosesFirst(st, a, k) ==
  LET s == ds[a].socket
      me == By(a, k, 0)
      st0 == [st EXCEPT !.acts[a][k].teardowns = @ + 1]
      st1 == SocketDisconnect(st0, s, me)
      st2 == SocketEmit(st1, s, "client-leave", ds[a].guid, me)
      st3 == SocketOff(st2, s, "server-update", me)
  IN  destroyAwareness(st3, a, k)

teardown(st, a, k) ==
  LET s == ds[a].socket
      me == By(a, k, 0)
      st0 == [st EXCEPT !.acts[a][k].teardowns = @ + 1]
      st1 == SocketEmit(st0, s, "client-leave", ds[a].guid, me)
      st2 == SocketOff(st1, s, "server-update", me)
      st3 == destroyAwareness(st2, a, k)
  IN  SocketDisconnect(st3, s, me)

(***************************************************************************)
(* The channel dispatching one inbound message to the handlers registered  *)
(* for its event, in registration order.                                   *)
(***************************************************************************)
RECURSIVE DispatchServerUpdate(_, _, _, _)
DispatchServerUpdate(st, hs, msg, src) ==
  IF hs = <<>> THEN st
  ELSE DispatchServerUpdate(onUpdate(st, Head(hs).a, Head(hs).k, msg, src),
                            Tail(hs), msg, src)

RECURSIVE DispatchBroadcast(_, _, _)
DispatchBroadcast(st, hs, msg) ==
  IF hs = <<>> THEN st
  ELSE DispatchBroadcast(awarenessBroadcast(st, Head(hs).a, Head(hs).k, msg),
                         Tail(hs), msg)

RECURSIVE DispatchNewClient(_, _)
DispatchNewClient(st, hs) ==
  IF hs = <<>> THEN st
  ELSE DispatchNewClient(newClientAwarenessInitHandler(st, Head(hs).a, Head(hs).k),
                         Tail(hs))

(***************************************************************************)
(* Wire payloads.                                                          *)
(***************************************************************************)
DocLoadMsg(a, guid, stateVector) ==
  [workspaceId |-> ds[a].guid, guid |-> guid, stateVector |-> stateVector]

\* Variant: the update is tagged with the room id instead of the guid.
ClientUpdateMsg_RoomAsGuid(a, guid, update) ==
  [workspaceId |-> ds[a].guid, guid |-> ds[a].guid, update |-> update]

ClientUpdateMsg(a, guid, update) ==
  [workspaceId |-> ds[a].guid, guid |-> guid, update |-> update]

AwarenessUpdateMsg(a, encodedUpdate) ==
  [workspaceId |-> ds[a].guid, awarenessUpdate |-> encodedUpdate]

AwarenessInitReplyMsg(a, encodedAwarenessUpdate) ==
  [guid |-> ds[a].guid, awarenessUpdate |-> encodedAwarenessUpdate]

\* Variant: an acknowledgement without update is treated as an error.
AckResult_NullRejects(ack) ==
  IF ack.kind = "error" \/ ack.kind = "null" THEN [kind |-> "rejected", bytes |-> <<>>]
  ELSE IF ack.str # <<>>
       THEN [kind |-> "update", bytes |-> base64ToUint8Array(ack.str)]
       ELSE [kind |-> "false", bytes |-> <<>>]

\* The acknowledgement callback of 'doc-load'.
AckResult(ack) ==
  IF ack.kind = "error" THEN [kind |-> "rejected", bytes |-> <<>>]
  ELSE IF ack.kind = "string" /\ ack.str # <<>>
       THEN [kind |-> "update", bytes |-> base64ToUint8Array(ack.str)]
       ELSE [kind |-> "false", bytes |-> <<>>]

\* Variant: acknowledgements are matched to requests in the order of issue.
AckTarget_Oldest(i) ==
  CHOOSE j \in DOMAIN tasks :
    /\ tasks[j].kind = "query" /\ tasks[j].status = "sent"
    /\ \A m \in DOMAIN tasks :
         tasks[m].kind = "query" /\ tasks[m].status = "sent" => j <= m

\* Which request an acknowledgement settles: the one whose emit carried it.
AckTarget(i) == i

AckInputs ==
  { [kind |-> "error", str |-> <<>>],
    [kind |-> "null", str |-> <<>>],
    [kind |-> "string", str |-> <<>>],
    [kind |-> "string", str |-> uint8ArrayToBase64(<<77, 97>>)] }

(***************************************************************************)
(* Actions.                                                                *)
(***************************************************************************)
Step == ops < MaxOps /\ ops' = ops + 1

OnDocUpdate(a) ==
  /\ Step
  /\ Commit(onDocUpdate(Cur, a, Len(acts[a]) + 1))

Teardown(a, k) ==
  /\ Step
  /\ Commit(teardown(Cur, a, k))

\* sendDocUpdate up to its await; the caller's replica already holds the update.
SendDocUpdate(a, guid, update) ==
  /\ Step
  /\ Commit([AddTask(Cur, Task("send", a, 0, guid, update, "encoding"))
               EXCEPT !.doc[a] = @ \cup {<<guid, update>>}])

\* sendDocUpdate after its await: emit, then resolve.
SendDocUpdateEmit(i) ==
  /\ tasks[i].kind = "send" /\ tasks[i].status = "encoding"
  /\ LET t == tasks[i]
         st1 == SocketEmit(Cur, ds[t.a].socket, "client-update",
                           ClientUpdateMsg(t.a, t.guid, uint8ArrayToBase64(t.bytes)),
                           By(t.a, 0, i))
     IN  Commit([st1 EXCEPT !.tasks[i].status = "resolved"])
  /\ ops' = ops

QueryEmit(st, i) ==
  LET t == st.tasks[i]
      sv == IF t.bytes = NoVector THEN NoVector ELSE uint8ArrayToBase64(t.bytes)
      st1 == SocketEmit(st, ds[t.a].socket, "doc-load", DocLoadMsg(t.a, t.guid, sv),
                        By(t.a, 0, i))
  IN  [st1 EXCEPT !.tasks[i].status = "sent"]

\* queryDocState: without a state vector the request is emitted at once.
QueryDocState(a, guid, stateVector) ==
  /\ Step
  /\ LET st1 == AddTask(Cur, Task("query", a, 0, guid, stateVector, "encoding"))
     IN  Commit(IF stateVector = NoVector THEN QueryEmit(st1, Len(st1.tasks)) ELSE st1)

QueryDocStateEmit(i) ==
  /\ tasks[i].kind = "query" /\ tasks[i].status = "encoding"
  /\ Commit(QueryEmit(Cur, i))
  /\ ops' = ops

\* The acknowledgement of request i arrives.
QueryAck(i, ack) ==
  /\ Step
  /\ tasks[i].kind = "query" /\ tasks[i].status = "sent"
  /\ LET j == AckTarget(i)
         r == AckResult(ack)
     IN  /\ j \in 1..Len(tasks)
         /\ Commit([Receive(Cur, ds[tasks[i].a].socket, "ack", ack, i)
                      EXCEPT !.tasks[i].status = "acked",
                             !.tasks[i].ack = ack,
                             !.tasks[j].result = IF @ = NoResult THEN r ELSE @])

\* .then() of the awareness listener's encode
AwarenessUpdateEmit(i) ==
  /\ tasks[i].kind = "aw" /\ tasks[i].status = "encoding"
  /\ LET t == tasks[i]
         st1 == SocketEmit(Cur, ds[t.a].socket, "awareness-update",
                           AwarenessUpdateMsg(t.a, uint8ArrayToBase64(t.bytes)),
                           By(t.a, t.k, i))
     IN  Commit([st1 EXCEPT !.tasks[i].status = "emitted"])
  /\ ops' = ops

\* .then() of the new-peer handler's encode
NewClientAwarenessEmit(i) ==
  /\ tasks[i].kind = "init" /\ tasks[i].status = "encoding"
  /\ LET t == tasks[i]
         st1 == SocketEmit(Cur, ds[t.a].socket, "awareness-update",
                           AwarenessInitReplyMsg(t.a, uint8ArrayToBase64(t.bytes)),
                           By(t.a, t.k, i))
     IN  Commit([st1 EXCEPT !.tasks[i].status = "emitted"])
  /\ ops' = ops

\* Variant: a failed encoding of sendDocUpdate is swallowed and the promise
\* resolves.
EncodeFail_Swallowed(i) ==
  /\ Step
  /\ tasks[i].status = "encoding"
  /\ Commit([Cur EXCEPT !.tasks[i].status =
               IF tasks[i].kind \in {"aw", "init"} THEN "logged"
               ELSE IF tasks[i].kind = "send" THEN "resolved" ELSE "rejected",
                        !.tasks[i].result =
               IF tasks[i].kind \in {"aw", "init", "send"} THEN @
               ELSE [kind |-> "rejected", bytes |-> <<>>]])

\* Variant: the awareness chain emits in its failure branch as well.
EncodeFail_EmitsAnyway(i) ==
  /\ Step
  /\ tasks[i].status = "encoding"
  /\ LET t == tasks[i]
         st1 == IF t.kind \in {"aw", "init"}
                THEN SocketEmit(Cur, ds[t.a].socket, "awareness-update",
                                AwarenessUpdateMsg(t.a, <<>>), By(t.a, t.k, i))
                ELSE Cur
     IN  Commit([st1 EXCEPT !.tasks[i].status =
                   IF t.kind \in {"aw", "init"} THEN "logged" ELSE "rejected",
                            !.tasks[i].result =
                   IF t.kind \in {"aw", "init"} THEN @
                   ELSE [kind |-> "rejected", bytes |-> <<>>]])

\* The awaited encoding fails: the async function rejects, .catch() logs.
EncodeFail(i) ==
  /\ Step
  /\ tasks[i].status = "encoding"
  /\ Commit([Cur EXCEPT !.tasks[i].status =
               IF tasks[i].kind \in {"aw", "init"} THEN "logged" ELSE "rejected",
                        !.tasks[i].result =
               IF tasks[i].kind \in {"aw", "init"} THEN @
               ELSE [kind |-> "rejected", bytes |-> <<>>]])

\* The application (or the engine) changes the awareness replica and the
\* engine emits 'update' with the change-set and the origin.
AwarenessChange(a, changes, origin) ==
  /\ Step
  /\ LET cs == ChangedClients(changes)
         st1 == [Cur EXCEPT !.awareness[a] =
                   [c \in ClientIds |->
                      IF \E n \in 1..Len(cs) : cs[n] = c THEN @[c] + 1 ELSE @[c]]]
         st2 == Log(st1, ds[a].socket, "change", "update",
                    [changes |-> changes, origin |-> origin], By("", 0, 0))
     IN  Commit(AwarenessEmitUpdate(st2, a, awHandlers[a], changes, origin))

InboundServerUpdate(s, msg, src) ==
  /\ Step
  /\ connected[s]
  /\ Commit(DispatchServerUpdate(Receive(Cur, s, "server-update", msg, src),
                                 handlers[s]["server-update"], msg, src))

InboundAwarenessBroadcast(s, msg) ==
  /\ Step
  /\ connected[s]
  /\ Commit(DispatchBroadcast(Receive(Cur, s, "server-awareness-broadcast", msg, 0),
                              handlers[s]["server-awareness-broadcast"], msg))

InboundNewClient(s) ==
  /\ Step
  /\ connected[s]
  /\ Commit(DispatchNewClient(Receive(Cur, s, "new-client-awareness-init", <<>>, 0),
                              handlers[s]["new-client-awareness-init"]))

\* The server relays a 'client-update' it received on socket s to socket s2
\* (in any order, possibly more than once).
Relayed ==
  UNION {{<<s, n>> : n \in {m \in DOMAIN trace[s] :
                              trace[s][m].op = "recv" /\ trace[s][m].by.t > 0}} :
         s \in Sockets}

Relay(s, n, s2) ==
  /\ trace[s][n].op = "emit" /\ trace[s][n].ev = "client-update"
  /\ s2 # s
  /\ connected[s2]
  /\ Cardinality(Relayed) < MaxRelays
  /\ LET msg == trace[s][n].arg
         src == trace[s][n].by.t
     IN  Commit(DispatchServerUpdate(Receive(Cur, s2, "server-update", msg, src),
                                     handlers[s2]["server-update"], msg, src))
  /\ ops' = ops

(***************************************************************************)
(* Specifications.                                                         *)
(***************************************************************************)
DataSource(guid, socket, clientID) ==
  [guid |-> guid, socket |-> socket, clientID |-> clientID]

InitCommon ==
  /\ connected = [s \in Sockets |-> FALSE]
  /\ handlers = [s \in Sockets |-> [e \in Events |-> <<>>]]
  /\ awHandlers = [a \in Adapters |-> <<>>]
  /\ awareness = [a \in Adapters |-> [c \in ClientIds |-> IF c = 3 THEN 0 ELSE 1]]
  /\ applied = [a \in Adapters |-> <<>>]
  /\ doc = [a \in Adapters |-> {}]
  /\ acts = [a \in Adapters |-> <<>>]
  /\ tasks = <<>>
  /\ trace = [s \in Sockets |-> <<>>]
  /\ ops = 0

\* One data source.
Init ==
  /\ ds = ("x" :> DataSource("w1", "s1", 1))
  /\ InitCommon

\* Two clients, each with its own channel, in the same room.
InitPeers ==
  /\ ds = ("x" :> DataSource("w1", "s1", 1)) @@ ("y" :> DataSource("w1", "s2", 2))
  /\ InitCommon

Api ==
  \/ \E a \in DOMAIN ds : OnDocUpdate(a)
  \/ \E a \in DOMAIN ds : \E k \in 1..Len(acts[a]) : Teardown(a, k)
  \/ \E a \in DOMAIN ds : \E d \in DocInputs : SendDocUpdate(a, d[1], d[2])
  \/ \E i \in 1..Len(tasks) : SendDocUpdateEmit(i)
  \/ \E i \in 1..Len(tasks) : EncodeFail(i)

AwarenessAndQuery ==
  \/ \E a \in DOMAIN ds : \E q \in QueryInputs : QueryDocState(a, q[1], q[2])
  \/ \E i \in 1..Len(tasks) : QueryDocStateEmit(i)
  \/ \E i \in 1..Len(tasks) : \E ack \in AckInputs : QueryAck(i, ack)
  \/ \E i \in 1..Len(tasks) : AwarenessUpdateEmit(i)
  \/ \E i \in 1..Len(tasks) : NewClientAwarenessEmit(i)
  \/ \E a \in DOMAIN ds : \E ch \in ChangeSets : \E o \in Origins :
       AwarenessChange(a, ch, o)

UsedSockets == {ds[a].socket : a \in DOMAIN ds}

Inbound ==
  \/ \E s \in UsedSockets : \E w \in Rooms : \E d \in DocInputs :
       InboundServerUpdate(s, [workspaceId |-> w, guid |-> d[1],
                               update |-> uint8ArrayToBase64(d[2])], 0)
  \/ \E s \in UsedSockets : \E w \in Rooms : \E u \in AwInputs :
       InboundAwarenessBroadcast(s, [workspaceId |-> w,
                                     awarenessUpdate |-> uint8ArrayToBase64(u)])
  \/ \E s \in UsedSockets : InboundNewClient(s)

Next == Api \/ AwarenessAndQuery \/ Inbound

Spec == Init /\ [][Next]_vars

ServerRelay ==
  \E s \in UsedSockets : \E n \in 1..Len(trace[s]) : \E s2 \in UsedSockets :
    Relay(s, n, s2)

PeerNext == Api \/ ServerRelay

PeerSpec == InitPeers /\ [][PeerNext]_vars

\* Two data sources of different rooms in one process: ioManager.socket('/')
\* gives both the same channel.
InitShared ==
  /\ ds = ("x" :> DataSource("w1", "s1", 1)) @@ ("y" :> DataSource("w2", "s1", 2))
  /\ InitCommon

SharedSpec == InitShared /\ [][Next]_vars

(***************************************************************************)
(* Reading the history.                                                    *)
(***************************************************************************)
Tr(a) == trace[ds[a].socket]

Activations == UNION {{<<a, k>> : k \in 1..Len(acts[a])} : a \in DOMAIN ds}

\* Positions of the trace where activation (a, k) itself did op on event ev.
OwnIdx(a, k, op, ev) ==
  {n \in DOMAIN Tr(a) : /\ Tr(a)[n].op = op /\ Tr(a)[n].ev = ev
                        /\ Tr(a)[n].by = By(a, k, 0)}

\* Positions where task t emitted ev.
TaskEmits(t, ev) ==
  {n \in DOMAIN Tr(tasks[t].a) : /\ Tr(tasks[t].a)[n].op = "emit"
                                 /\ Tr(tasks[t].a)[n].ev = ev
                                 /\ Tr(tasks[t].a)[n].by.t = t}

\* At position n the listener of (a, k) for ev was registered and not yet removed.
Registered(a, k, ev, n) ==
  /\ \E m \in OwnIdx(a, k, "on", ev) : m < n
  /\ \A m \in OwnIdx(a, k, "off", ev) : m > n

\* Positions where a message of event ev arrived while (a, k) listened to it.
Arrived(a, k, ev) ==
  {n \in DOMAIN Tr(a) : /\ Tr(a)[n].op = "recv" /\ Tr(a)[n].ev = ev
                        /\ Registered(a, k, ev, n)}

TasksOf(a, k, kind) ==
  {t \in DOMAIN tasks : tasks[t].kind = kind /\ tasks[t].a = a /\ tasks[t].k = k}

(***************************************************************************)
(* C1                                                                      *)
(***************************************************************************)
\* C1: however often the teardown of an activation is invoked, that
\* activation emits exactly one 'client-leave' in total.
C1_SingleLeave ==
  \A act \in Activations :
    Cardinality(OwnIdx(act[1], act[2], "emit", "client-leave"))
      = IF acts[act[1]][act[2]].teardowns > 0 THEN 1 ELSE 0

(***************************************************************************)
(* C2                                                                      *)
(***************************************************************************)
\* The 'server-update' messages of the active room that arrived while (a, k)
\* listened, among the first n entries of the trace, in order.
RECURSIVE ExpectedCalls(_, _, _)
ExpectedCalls(a, k, n) ==
  IF n = 0 THEN <<>>
  ELSE LET e == Tr(a)[n]
           rest == ExpectedCalls(a, k, n - 1)
       IN  IF /\ n \in Arrived(a, k, "server-update")
              /\ e.arg.workspaceId = ds[a].guid
           THEN Append(rest, e.arg)
           ELSE rest

SentBy(a) ==
  {<<tasks[t].guid, tasks[t].bytes>> :
     t \in {u \in DOMAIN tasks : tasks[u].kind = "send" /\ tasks[u].a = a}}

CalledBack(a) ==
  UNION {{<<acts[a][k].cb[i].guid, acts[a][k].cb[i].update>> :
            i \in DOMAIN acts[a][k].cb} : k \in DOMAIN acts[a]}

\* C2: the callback of a live activation is invoked exactly once for every
\* inbound 'server-update' of the active room, with the message's guid and
\* the decoded update, and never for a message of another room; the replica
\* holds nothing but its own updates and those passed to the callback.
C2_RoomFilter ==
  \A act \in Activations :
    LET a == act[1]
        cb == acts[a][act[2]].cb
        exp == ExpectedCalls(a, act[2], Len(Tr(a)))
    IN  /\ Len(cb) = Len(exp)
        /\ \A i \in DOMAIN cb :
             /\ cb[i].guid = exp[i].guid
             /\ uint8ArrayToBase64(cb[i].update) = exp[i].update
        /\ doc[a] = SentBy(a) \cup CalledBack(a)

\* A live activation has received a message of another room and one of its own.
C2_Witness ==
  \E act \in Activations :
    LET a == act[1]
        h == Arrived(a, act[2], "server-update")
    IN  /\ \E n \in h : Tr(a)[n].arg.workspaceId # ds[a].guid
        /\ \E n \in h : Tr(a)[n].arg.workspaceId = ds[a].guid
        /\ Len(acts[a][act[2]].cb) = 1

(***************************************************************************)
(* C3                                                                      *)
(***************************************************************************)
NonServer(heard) == {i \in DOMAIN heard : heard[i] # "server"}

\* C3: a change event with origin 'server' starts no outbound encoding, every
\* other change event heard by a registered listener starts exactly one, and
\* that one emits 'awareness-update' exactly once when its encoding completes;
\* a diff applied by the broadcast handler always carries the origin 'server';
\* nothing else emits 'awareness-update'.
C3_NoEcho ==
  /\ \A act \in Activations :
       LET a == act[1]
           aws == TasksOf(a, act[2], "aw")
       IN  /\ Cardinality(aws) = Cardinality(NonServer(acts[a][act[2]].heard))
           /\ \A t \in aws :
                Cardinality(TaskEmits(t, "awareness-update"))
                  = IF tasks[t].status = "emitted" THEN 1 ELSE 0
  /\ \A a \in DOMAIN ds :
       /\ \A i \in DOMAIN applied[a] : applied[a][i].origin = "server"
       /\ \A n \in DOMAIN Tr(a) :
            Tr(a)[n].op = "emit" /\ Tr(a)[n].ev = "awareness-update"
              => /\ Tr(a)[n].by.t \in DOMAIN tasks
                 /\ tasks[Tr(a)[n].by.t].kind \in {"aw", "init"}

\* A listener has heard a change caused by an applied broadcast and a local
\* change, and the local one has been emitted.
C3_Witness ==
  \E act \in Activations :
    LET a == act[1]
        heard == acts[a][act[2]].heard
    IN  /\ applied[a] # <<>>
        /\ \E i \in DOMAIN heard : heard[i] = "server"
        /\ \E i \in DOMAIN heard : heard[i] = "local"
        /\ \E t \in TasksOf(a, act[2], "aw") : tasks[t].status = "emitted"

(***************************************************************************)
(* C4                                                                      *)
(***************************************************************************)
\* C4: every 'new-client-awareness-init' received by a registered handler
\* starts exactly one encoding, of the local client's own entry only, which
\* emits exactly one 'awareness-update' covering exactly that client id.
C4_SelfAnnounce ==
  \A act \in Activations :
    LET a == act[1]
        inits == TasksOf(a, act[2], "init")
    IN  /\ Cardinality(inits)
             = Cardinality(Arrived(a, act[2], "new-client-awareness-init"))
        /\ \A t \in inits :
             /\ Cardinality(TaskEmits(t, "awareness-update"))
                  = IF tasks[t].status = "emitted" THEN 1 ELSE 0
             /\ \A n \in TaskEmits(t, "awareness-update") :
                  DecodedClients(base64ToUint8Array(Tr(a)[n].arg.awarenessUpdate))
                    = <<ds[a].clientID>>

\* A re-announcement was emitted while the map also knew another client.
C4_Witness ==
  \E act \in Activations :
    /\ \E c \in ClientIds : c # ds[act[1]].clientID /\ awareness[act[1]][c] > 0
    /\ \E t \in TasksOf(act[1], act[2], "init") : tasks[t].status = "emitted"

(***************************************************************************)
(* C5, C6                                                                  *)
(***************************************************************************)
Queries == {t \in DOMAIN tasks : tasks[t].kind = "query"}

\* The outcome the acknowledgement ack calls for.
Settles(ack, result) ==
  /\ ack.kind = "error" => result.kind = "rejected"
  /\ ack.kind = "null" => result.kind = "false"
  /\ ack.kind = "string" /\ ack.str = <<>> => result.kind = "false"
  /\ ack.kind = "string" /\ ack.str # <<>>
       => result.kind = "update" /\ uint8ArrayToBase64(result.bytes) = ack.str

\* C5: an acknowledged queryDocState has settled with the outcome its
\* acknowledgement calls for: the decoded update for a non-empty string, the
\* false sentinel for null, a rejection for an Error and only for an Error.
C5_AckOutcome ==
  \A t \in Queries :
    tasks[t].status = "acked"
      => /\ tasks[t].result.kind \in {"update", "false", "rejected"}
         /\ Settles(tasks[t].ack, tasks[t].result)
         /\ tasks[t].result.kind = "rejected" => tasks[t].ack.kind = "error"

\* A query whose state vector was encoded was answered null and returned
\* the false sentinel.
C5_Witness ==
  \E t \in Queries :
    /\ tasks[t].bytes # NoVector
    /\ tasks[t].status = "acked"
    /\ tasks[t].ack.kind = "null" /\ tasks[t].result.kind = "false"

AckStep(t) == tasks[t].status = "sent" /\ tasks'[t].status = "acked"

C6_Settled ==
  \A t \in Queries :
    /\ tasks[t].status = "acked" => Settles(tasks[t].ack, tasks[t].result)
    /\ tasks[t].status = "sent" => tasks[t].result = NoResult

C6_Step ==
  \A t \in Queries :
    /\ tasks[t].status \in {"acked", "rejected"} => tasks'[t] = tasks[t]
    /\ AckStep(t) =>
         /\ \A u \in DOMAIN tasks : u # t => tasks'[u] = tasks[u]
         /\ Len(tasks') = Len(tasks)
         /\ handlers' = handlers /\ awHandlers' = awHandlers
         /\ connected' = connected /\ awareness' = awareness
         /\ applied' = applied /\ doc' = doc /\ acts' = acts
         /\ \A s \in Sockets :
              trace'[s] = trace[s]
                \/ /\ s = ds[tasks[t].a].socket
                   /\ trace'[s] = Append(trace[s], trace'[s][Len(trace'[s])])
                   /\ trace'[s][Len(trace'[s])].op = "recv"

\* C6: with several requests in flight and acknowledgements arriving in any
\* order, every request settles with the outcome of its own acknowledgement,
\* a settled request never changes again, and the arrival of an
\* acknowledgement changes nothing but the request it answers.
C6_Independent == []C6_Settled /\ [][C6_Step]_vars

\* Two requests are in flight and the later one is acknowledged first, with
\* an update, while the earlier one is still pending.
C6_Witness ==
  \E t, u \in Queries :
    /\ t < u
    /\ tasks[t].status = "sent" /\ tasks[t].result = NoResult
    /\ tasks[u].status = "acked" /\ tasks[u].result.kind = "update"

(***************************************************************************)
(* C7                                                                      *)
(***************************************************************************)
InSeq(x, q) == \E i \in DOMAIN q : q[i] = x

AppliedBy(a, k) == {i \in DOMAIN applied[a] : applied[a][i].k = k}

C7_Released ==
  \A act \in Activations :
    acts[act[1]][act[2]].teardowns > 0
      => /\ \A ev \in Events :
              ~InSeq([a |-> act[1], k |-> act[2]], handlers[ds[act[1]].socket][ev])
         /\ ~InSeq(act[2], awHandlers[act[1]])

C7_Step ==
  \A act \in Activations :
    acts[act[1]][act[2]].teardowns > 0
      => /\ acts'[act[1]][act[2]].cb = acts[act[1]][act[2]].cb
         /\ acts'[act[1]][act[2]].heard = acts[act[1]][act[2]].heard
         /\ {i \in DOMAIN applied'[act[1]] : applied'[act[1]][i].k = act[2]}
              = AppliedBy(act[1], act[2])
         /\ \A kind \in {"aw", "init"} :
              {t \in DOMAIN tasks' : /\ tasks'[t].kind = kind
                                     /\ tasks'[t].a = act[1] /\ tasks'[t].k = act[2]}
                = TasksOf(act[1], act[2], kind)

\* C7: once the teardown of an activation has run, none of its four listeners
\* is registered, and no later message or awareness change reaches it: its
\* callback is not invoked, it applies nothing to the awareness replica and
\* it starts no further encoding.
C7_TeardownReleases == []C7_Released /\ [][C7_Step]_vars

\* After the teardown of an activation the awareness replica changed
\* locally, and the activation neither heard it nor started an encoding.
C7_Witness ==
  \E act \in Activations :
    /\ acts[act[1]][act[2]].teardowns > 0
    /\ \E n \in DOMAIN Tr(act[1]) :
         /\ Tr(act[1])[n].op = "change"
         /\ Tr(act[1])[n].arg.origin = "local"
         /\ \A m \in OwnIdx(act[1], act[2], "off", "update") : m < n
    /\ acts[act[1]][act[2]].heard = <<>>
    /\ TasksOf(act[1], act[2], "aw") = {}

(***************************************************************************)
(* C8, C9 (two clients in one room, the server relaying)                   *)
(***************************************************************************)
Sends == {t \in DOMAIN tasks : tasks[t].kind = "send"}

\* C8: a 'client-update' carries the sender's room as workspaceId and the
\* guid passed to sendDocUpdate; relayed to a client listening in that room
\* it invokes the callback once, with that guid and with bytes identical to
\* the update passed to sendDocUpdate.
C8_Fidelity ==
  /\ \A t \in Sends : \A n \in TaskEmits(t, "client-update") :
       /\ Tr(tasks[t].a)[n].arg.workspaceId = ds[tasks[t].a].guid
       /\ Tr(tasks[t].a)[n].arg.guid = tasks[t].guid
  /\ \A act \in Activations :
       LET a == act[1]
           cb == acts[a][act[2]].cb
       IN  /\ Len(cb) = Cardinality({n \in Arrived(a, act[2], "server-update") :
                                       Tr(a)[n].arg.workspaceId = ds[a].guid})
           /\ \A i \in DOMAIN cb :
                cb[i].src > 0 => /\ cb[i].guid = tasks[cb[i].src].guid
                                 /\ cb[i].update = tasks[cb[i].src].bytes

\* The peer's callback has received a relayed update of several bytes.
C8_Witness ==
  \E act \in Activations : \E i \in DOMAIN acts[act[1]][act[2]].cb :
    LET c == acts[act[1]][act[2]].cb[i]
    IN  /\ c.src > 0
        /\ tasks[c.src].a # act[1]
        /\ Len(c.update) = 4

Delivered(t, b) ==
  \E k \in DOMAIN acts[b] : \E i \in DOMAIN acts[b][k].cb : acts[b][k].cb[i].src = t

\* C9: two replicas of one room hold the same document state once every
\* update passed to sendDocUpdate on either has been relayed to, and passed
\* to the callback of, the other, whatever the order and the repetitions.
C9_Convergence ==
  \A a, b \in DOMAIN ds :
    ( /\ a # b
      /\ ds[a].guid = ds[b].guid
      /\ \A t \in Sends : Delivered(t, IF tasks[t].a = a THEN b ELSE a) )
    => doc[a] = doc[b]

\* Two updates were delivered out of order and one of them twice.
C9_Witness ==
  /\ Cardinality(doc["x"]) = 2
  /\ \A t \in Sends : tasks[t].a = "x" /\ Delivered(t, "y")
  /\ \E k \in DOMAIN acts["y"] :
       /\ Len(acts["y"][k].cb) = 3
       /\ acts["y"][k].cb[1].src = 2
  /\ doc["y"] = doc["x"]

(***************************************************************************)
(* C10                                                                     *)
(***************************************************************************)
SetupOrder ==
  << <<"connect", "">>,
     <<"emit", "client-handshake">>,
     <<"on", "server-update">>,
     <<"on", "server-awareness-broadcast">>,
     <<"on", "new-client-awareness-init">>,
     <<"on", "update">>,
     <<"emit", "awareness-init">> >>

\* The position of the 'connect' of activation (a, k).
Start(a, k) == CHOOSE n \in DOMAIN Tr(a) :
                 Tr(a)[n].by = By(a, k, 0)
                   /\ \A m \in DOMAIN Tr(a) : Tr(a)[m].by = By(a, k, 0) => n <= m

\* C10: an activation performs, in this order and with nothing in between:
\* connect, emit 'client-handshake' with the room, register 'server-update',
\* register the three awareness listeners, emit 'awareness-init' with the
\* room; every 'awareness-update' of the activation follows its handshake.
C10_ActivationOrder ==
  \A act \in Activations :
    LET a == act[1]
        n0 == Start(a, act[2])
    IN  /\ Len(Tr(a)) >= n0 + 6
        /\ \A i \in 1..7 :
             /\ Tr(a)[n0 + i - 1].by = By(a, act[2], 0)
             /\ <<Tr(a)[n0 + i - 1].op, Tr(a)[n0 + i - 1].ev>> = SetupOrder[i]
        /\ Tr(a)[n0 + 1].arg = ds[a].guid
        /\ Tr(a)[n0 + 6].arg = ds[a].guid
        /\ \A kind \in {"aw", "init"} : \A t \in TasksOf(a, act[2], kind) :
             \A n \in TaskEmits(t, "awareness-update") : n > n0 + 6

\* An activation has emitted an 'awareness-update'.
C10_Witness ==
  \E act \in Activations : \E t \in TasksOf(act[1], act[2], "aw") :
    TaskEmits(t, "awareness-update") # {}

(***************************************************************************)
(* C11                                                                     *)
(***************************************************************************)
TeardownOrder ==
  << <<"emit", "client-leave">>,
     <<"off", "server-update">>,
     <<"off", "update">>,
     <<"off", "server-awareness-broadcast">>,
     <<"off", "new-client-awareness-init">>,
     <<"disconnect", "">> >>

\* All positions of the trace where activation (a, k) itself acted.
OwnAll(a, k) == {n \in DOMAIN Tr(a) : Tr(a)[n].by = By(a, k, 0)}

\* C11: every invocation of a teardown emits 'client-leave' with the room,
\* removes the 'server-update' listener, runs the awareness teardown and only
\* then closes the channel, with nothing in between; 'client-leave' is the
\* only message a teardown emits and it precedes the close.
C11_TeardownOrder ==
  \A act \in Activations :
    LET a == act[1]
        k == act[2]
        leaves == OwnIdx(a, k, "emit", "client-leave")
    IN  /\ Cardinality(leaves) = acts[a][k].teardowns
        /\ Cardinality(OwnAll(a, k)) = 7 + 6 * acts[a][k].teardowns
        /\ \A n \in leaves :
             /\ Len(Tr(a)) >= n + 5
             /\ Tr(a)[n].arg = ds[a].guid
             /\ \A i \in 1..6 :
                  /\ Tr(a)[n + i - 1].by = By(a, k, 0)
                  /\ <<Tr(a)[n + i - 1].op, Tr(a)[n + i - 1].ev>> = TeardownOrder[i]
        /\ \A n \in OwnAll(a, k) :
             Tr(a)[n].op = "emit" =>
               Tr(a)[n].ev \in {"client-handshake", "awareness-init", "client-leave"}

\* An activation that has called its callback was torn down.
C11_Witness ==
  \E act \in Activations :
    /\ acts[act[1]][act[2]].teardowns = 1
    /\ Len(acts[act[1]][act[2]].cb) = 1
    /\ ~connected[ds[act[1]].socket]

(***************************************************************************)
(* C12                                                                     *)
(***************************************************************************)
\* C12: a sendDocUpdate whose encoding failed is rejected and has emitted no
\* 'client-update'; one whose encoding succeeded has emitted exactly one
\* 'client-update', carrying the encoded update, and is resolved from the
\* moment of that emission on, whatever arrives or not on the channel; while
\* the encoding is pending nothing is emitted and the promise is unsettled.
C12_SendOutcome ==
  \A t \in Sends :
    LET emits == TaskEmits(t, "client-update")
        a == tasks[t].a
    IN  /\ tasks[t].status \in {"encoding", "resolved", "rejected"}
        /\ tasks[t].status = "rejected" =>
             emits = {} /\ tasks[t].result.kind = "rejected"
        /\ tasks[t].status = "encoding" =>
             emits = {} /\ tasks[t].result = NoResult
        /\ tasks[t].status = "resolved" =>
             /\ Cardinality(emits) = 1
             /\ tasks[t].result = NoResult
             /\ \A n \in emits :
                  Tr(a)[n].arg = ClientUpdateMsg(a, tasks[t].guid,
                                                 uint8ArrayToBase64(tasks[t].bytes))
        /\ \A n \in DOMAIN Tr(a) :
             Tr(a)[n].op = "emit" /\ Tr(a)[n].by.t = t => Tr(a)[n].ev = "client-update"

\* One call was rejected, another resolved on a channel that was never
\* connected and on which nothing has arrived.
C12_Witness ==
  /\ \E t \in Sends : tasks[t].status = "rejected"
  /\ \E t \in Sends :
       /\ tasks[t].status = "resolved"
       /\ ~connected[ds[tasks[t].a].socket]
       /\ \A n \in DOMAIN Tr(tasks[t].a) : Tr(tasks[t].a)[n].op # "recv"

(***************************************************************************)
(* C13                                                                     *)
(***************************************************************************)
AwarenessTasks == {t \in DOMAIN tasks : tasks[t].kind \in {"aw", "init"}}

\* A failed awareness chain has emitted nothing and settled nothing, and the
\* callback log of its activation is still the log of the in-room messages.
C13_Logged ==
  \A t \in AwarenessTasks :
    tasks[t].status = "logged" =>
      /\ TaskEmits(t, "awareness-update") = {}
      /\ tasks[t].result = NoResult
      /\ Len(acts[tasks[t].a][tasks[t].k].cb)
           = Len(ExpectedCalls(tasks[t].a, tasks[t].k, Len(Tr(tasks[t].a))))

\* The step in which an awareness chain fails changes that chain only.
C13_Step ==
  \A i \in DOMAIN tasks :
    (/\ i \in AwarenessTasks
     /\ tasks[i].status = "encoding"
     /\ tasks'[i].status = "logged")
    => /\ handlers' = handlers
       /\ awHandlers' = awHandlers
       /\ connected' = connected
       /\ awareness' = awareness
       /\ acts' = acts
       /\ doc' = doc
       /\ trace' = trace
       /\ tasks' = [tasks EXCEPT ![i].status = "logged"]

\* C13: a failure of the encoding in the local-change listener or in the
\* new-peer handler is logged and goes no further: no 'awareness-update' is
\* emitted for it, no listener is removed, the channel stays as it was, and
\* in-room 'server-update' messages keep reaching the callback.
C13_FailureContained == []C13_Logged /\ [][C13_Step]_vars

\* The encoding for a local change failed while the activation is listening.
C13_Witness ==
  \E t \in AwarenessTasks :
    /\ tasks[t].status = "logged"
    /\ \A ev \in {"server-update", "server-awareness-broadcast",
                   "new-client-awareness-init"} :
         InSeq([a |-> tasks[t].a, k |-> tasks[t].k], handlers[ds[tasks[t].a].socket][ev])
    /\ InSeq(tasks[t].k, awHandlers[tasks[t].a])
    /\ connected[ds[tasks[t].a].socket]

(***************************************************************************)
(* C14                                                                     *)
(***************************************************************************)
\* C14: the 'client-update' messages of two sendDocUpdate calls on one
\* adapter are emitted in the order of the calls, whatever the order in
\* which their encodings complete.
C14_Fifo ==
  \A t \in Sends : \A u \in Sends :
    (t < u /\ tasks[t].a = tasks[u].a) =>
      \A n \in TaskEmits(t, "client-update") :
        \A m \in TaskEmits(u, "client-update") : n < m

MatchingBroadcasts(a, k) ==
  {n \in Arrived(a, k, "server-awareness-broadcast") :
     Tr(a)[n].arg.workspaceId = ds[a].guid}

\* Every application made by a handler has the origin 'server' and the
\* decoded payload of an in-room broadcast, one application per broadcast.
C16_Applied ==
  \A act \in Activations :
    LET a == act[1]
        k == act[2]
    IN  /\ Cardinality(AppliedBy(a, k)) = Cardinality(MatchingBroadcasts(a, k))
        /\ \A i \in AppliedBy(a, k) :
             /\ applied[a][i].origin = "server"
             /\ \E n \in MatchingBroadcasts(a, k) :
                  base64ToUint8Array(Tr(a)[n].arg.awarenessUpdate) = applied[a][i].bytes

\* The step in which a broadcast arrives: of another room, it changes nothing
\* of the adapter but the history of arrivals; of the adapter's room, the
\* replica becomes what the engine makes of the decoded payload.
C16_Step ==
  \A a \in DOMAIN ds :
    LET s == ds[a].socket
        n == Len(trace[s]) + 1
    IN  (/\ Len(trace'[s]) >= n
         /\ trace'[s][n].op = "recv"
         /\ trace'[s][n].ev = "server-awareness-broadcast")
        => IF trace'[s][n].arg.workspaceId # ds[a].guid
           THEN /\ awareness'[a] = awareness[a]
                /\ applied'[a] = applied[a]
                /\ acts'[a] = acts[a]
                /\ tasks' = tasks
                /\ Len(trace'[s]) = n
           ELSE /\ Len(trace'[s]) = n
                /\ tasks' = tasks
                /\ awareness'[a] =
                     IF \E i \in DOMAIN handlers[s]["server-awareness-broadcast"] :
                          handlers[s]["server-awareness-broadcast"][i].a = a
                     THEN ApplyEntries(awareness[a], NoChanges,
                            base64ToUint8Array(trace'[s][n].arg.awarenessUpdate), 1).aw
                     ELSE awareness[a]

\* C16: while the bridge is set up, a 'server-awareness-broadcast' of another
\* room leaves the awareness replica unchanged and emits nothing; one of the
\* bridge's room is applied to the replica exactly once, with the origin
\* 'server', and emits nothing either.
C16_BroadcastFilter == []C16_Applied /\ [][C16_Step]_vars

\* A bridge has received a broadcast of another room and one of its own,
\* which brought a client it did not know.
C16_Witness ==
  \E act \in Activations :
    LET a == act[1]
        h == Arrived(a, act[2], "server-awareness-broadcast")
    IN  /\ \E n \in h : Tr(a)[n].arg.workspaceId # ds[a].guid
        /\ Cardinality(MatchingBroadcasts(a, act[2])) = 1
        /\ Len(applied[a]) = 1
        /\ awareness[a][3] = 1

(***************************************************************************)
(* C17                                                                     *)
(***************************************************************************)
\* Positions of the awareness changes of another origin than 'server' that
\* occurred while the listener of (a, k) was registered.
LocalChanges(a, k) ==
  {n \in DOMAIN Tr(a) : /\ Tr(a)[n].op = "change"
                        /\ Tr(a)[n].arg.origin # "server"
                        /\ Registered(a, k, "update", n)}

SeqRange(q) == {q[i] : i \in DOMAIN q}

\* C17: the j-th local awareness change heard by a bridge and the j-th
\* encoding it started belong together: the diff covers exactly the client
\* ids of added, updated and removed of that change (none missing, none
\* else, also when sets are empty), and the 'awareness-update' emitted for
\* it carries that diff, encoded, and the room as workspaceId.
C17_ExactDiff ==
  \A act \in Activations :
    LET a == act[1]
        k == act[2]
        aws == TasksOf(a, k, "aw")
        chg == LocalChanges(a, k)
    IN  /\ Cardinality(aws) = Cardinality(chg)
        /\ \A t \in aws : \A n \in chg :
             Cardinality({u \in aws : u <= t}) = Cardinality({m \in chg : m <= n})
             => LET ch == Tr(a)[n].arg.changes
                    ids == SeqRange(ch.added) \cup SeqRange(ch.updated)
                             \cup SeqRange(ch.removed)
                    diff == DecodedClients(tasks[t].bytes)
                IN  /\ SeqRange(diff) = ids
                    /\ Len(diff) = Len(ch.added) + Len(ch.updated) + Len(ch.removed)
                    /\ \A e \in TaskEmits(t, "awareness-update") :
                         /\ Tr(a)[e].arg.workspaceId = ds[a].guid
                         /\ Tr(a)[e].arg.awarenessUpdate
                              = uint8ArrayToBase64(tasks[t].bytes)

\* A bridge has emitted the diff of a change with an added and a removed
\* client and the diff of a change whose three sets are empty.
C17_Witness ==
  \E act \in Activations :
    /\ \E t \in TasksOf(act[1], act[2], "aw") :
         /\ TaskEmits(t, "awareness-update") # {}
         /\ SeqRange(DecodedClients(tasks[t].bytes)) = {2, 3}
    /\ \E t \in TasksOf(act[1], act[2], "aw") :
         /\ TaskEmits(t, "awareness-update") # {}
         /\ DecodedClients(tasks[t].bytes) = <<>>

(***************************************************************************)
(* C18                                                                     *)
(***************************************************************************)
Live(a, k) == k \in 1..Len(acts[a]) /\ acts[a][k].teardowns = 0

ChannelEvents ==
  {"server-update", "server-awareness-broadcast", "new-client-awareness-init"}

\* C18: every activation, the first and each later one, has connected,
\* emitted 'client-handshake' and 'awareness-init' with the room and
\* registered its four listeners, once each; at any time the listeners
\* registered on the channel and on the awareness replica are those of the
\* activations not yet torn down, one each, and the callback of an
\* activation has been invoked once per in-room 'server-update' that
\* arrived while it was registered.
C18_Rejoin ==
  /\ \A act \in Activations :
       LET a == act[1]
           k == act[2]
       IN  /\ Cardinality(OwnIdx(a, k, "connect", "")) = 1
           /\ \A ev \in {"client-handshake", "awareness-init"} :
                /\ Cardinality(OwnIdx(a, k, "emit", ev)) = 1
                /\ \A n \in OwnIdx(a, k, "emit", ev) : Tr(a)[n].arg = ds[a].guid
           /\ \A ev \in ChannelEvents \cup {"update"} :
                Cardinality(OwnIdx(a, k, "on", ev)) = 1
           /\ \A ev \in ChannelEvents :
                Cardinality({i \in DOMAIN handlers[ds[a].socket][ev] :
                               handlers[ds[a].socket][ev][i] = [a |-> a, k |-> k]})
                  = IF Live(a, k) THEN 1 ELSE 0
           /\ Cardinality({i \in DOMAIN awHandlers[a] : awHandlers[a][i] = k})
                = IF Live(a, k) THEN 1 ELSE 0
           /\ Len(acts[a][k].cb)
                = Cardinality({n \in Arrived(a, k, "server-update") :
                                 Tr(a)[n].arg.workspaceId = ds[a].guid})
  /\ \A s \in Sockets : \A ev \in ChannelEvents : \A i \in DOMAIN handlers[s][ev] :
       LET h == handlers[s][ev][i]
       IN  h.a \in DOMAIN ds /\ ds[h.a].socket = s /\ Live(h.a, h.k)
  /\ \A a \in Adapters : \A i \in DOMAIN awHandlers[a] :
       a \in DOMAIN ds /\ Live(a, awHandlers[a][i])

\* After a join, a teardown and a second join the channel is connected and
\* holds the listeners of the second activation only.
C18_Witness ==
  \E a \in DOMAIN ds :
    /\ Len(acts[a]) = 2
    /\ acts[a][1].teardowns = 1
    /\ Live(a, 2)
    /\ connected[ds[a].socket]
    /\ \A ev \in ChannelEvents : handlers[ds[a].socket][ev] = <<[a |-> a, k |-> 2]>>
    /\ awHandlers[a] = <<2>>
    /\ \E n \in OwnIdx(a, 2, "connect", "") :
         \A m \in OwnIdx(a, 1, "disconnect", "") : m < n

(***************************************************************************)
(* C19                                                                     *)
(***************************************************************************)
\* C19: once a teardown of an activation has run (its 'client-leave' is
\* emitted and the channel closed), no 'awareness-update' is emitted for that
\* activation any more, also when the encoding for a local change or for a
\* 'new-client-awareness-init' started before the teardown and completes
\* after it.
C19_QuietAfterTeardown ==
  \A act \in Activations : \A kind \in {"aw", "init"} :
    \A t \in TasksOf(act[1], act[2], kind) :
      \A n \in TaskEmits(t, "awareness-update") :
        \A m \in OwnIdx(act[1], act[2], "disconnect", "") : n < m

(***************************************************************************)
(* C20 (two rooms on the shared channel)                                   *)
(***************************************************************************)
HandlersOf(q, b) == SelectSeq(q, LAMBDA h : h.a = b)

\* What reached a callback or a replica came in a message of its own room.
C20_OwnRoomOnly ==
  \A act \in Activations :
    LET a == act[1]
        k == act[2]
        cb == acts[a][k].cb
        exp == ExpectedCalls(a, k, Len(Tr(a)))
    IN  /\ Len(cb) = Len(exp)
        /\ \A i \in DOMAIN cb :
             exp[i].workspaceId = ds[a].guid /\ cb[i].guid = exp[i].guid
        /\ Cardinality(AppliedBy(a, k)) = Cardinality(MatchingBroadcasts(a, k))
        /\ \A ev \in ChannelEvents :
             Live(a, k) => InSeq([a |-> a, k |-> k], handlers[ds[a].socket][ev])
        /\ Live(a, k) => InSeq(k, awHandlers[a])

\* The arrival of a message of room w changes nothing of an adapter of
\* another room; a teardown of one adapter leaves the listeners of every
\* other adapter as they were.
C20_Step ==
  \A b \in DOMAIN ds :
    LET s == ds[b].socket
        n == Len(trace[s]) + 1
    IN  /\ (/\ Len(trace'[s]) >= n
            /\ trace'[s][n].op = "recv"
            /\ trace'[s][n].ev \in {"server-update", "server-awareness-broadcast"}
            /\ trace'[s][n].arg.workspaceId # ds[b].guid)
           => /\ acts'[b] = acts[b]
              /\ doc'[b] = doc[b]
              /\ awareness'[b] = awareness[b]
              /\ applied'[b] = applied[b]
        /\ (\E a \in DOMAIN ds \ {b} : \E k \in DOMAIN acts[a] :
              acts'[a][k].teardowns > acts[a][k].teardowns)
           => /\ \A ev \in ChannelEvents :
                   HandlersOf(handlers'[s][ev], b) = HandlersOf(handlers[s][ev], b)
              /\ awHandlers'[b] = awHandlers[b]

\* C20: with an adapter of room A and one of room B on the one channel of
\* the process, a 'server-update' or 'server-awareness-broadcast' of room A
\* reaches the callback and the awareness replica of A only, and the
\* teardown of A removes the handlers of A only: those of B stay registered.
C20_CrossRoomIsolation == []C20_OwnRoomOnly /\ [][C20_Step]_vars

\* Both adapters are active on the shared channel and a 'server-update' of
\* room w1 has arrived: the callback of x was invoked, that of y was not.
C20_Witness ==
  /\ ds["x"].socket = ds["y"].socket
  /\ ds["x"].guid # ds["y"].guid
  /\ Len(acts["x"]) = 1 /\ Len(acts["y"]) = 1
  /\ Live("x", 1) /\ Live("y", 1)
  /\ Len(acts["x"][1].cb) = 1
  /\ acts["y"][1].cb = <<>>
  /\ \E n \in Arrived("y", 1, "server-update") : Tr("y")[n].arg.workspaceId = "w1"

====
